---- MODULE Spec2Model ----
(***************************************************************************)
(* Activation layer of the pull-request extension (src/extension.ts):      *)
(* activate / init, the configuration-change handler, and the debounced    *)
(* selection-changed handler that keeps both managers' repository.         *)
(*                                                                         *)
(* The extension host is a single dispatch loop: every action below is one *)
(* handler (or one continuation after an await) run to completion.         *)
(***************************************************************************)
EXTENDS Integers, Sequences, FiniteSets

\* ---------------------------------------------------------------- bounds
MaxRepos == 3          \* repositories the version-control provider ever opens
MaxConfigRuns == 2     \* configuration-change handler runs awaiting per init
MaxBurst == 3          \* selection-changed events counted per burst (then: or more)

Repos == 1..MaxRepos
\* The activations: the one call of activate the host makes per process, and
\* a second call for the specification in which activate is called again.
Insts == {"first", "second"}

NoRepository == 0      \* JavaScript undefined where a Repository is expected
NoTimer == 0           \* updateRepositoryTimer before the first setTimeout
NoTelemetry == "none"  \* the module variable telemetry before activate

VARIABLES
    repositories,           \* git.repositories, in enumeration order
    selected,               \* r.ui.selected of every repository
    telemetry,              \* module variable telemetry: the session, if any
    telemetryEvents,        \* 'startup' events each telemetry session got
    pc,                     \* position of each activation's init
    activateResult,         \* promise returned by each activate call
    onceListener,           \* single-shot onDidOpenRepository subscription
    initCalls,              \* how often init was invoked for the activation
    initRepository,         \* init's parameter repository
    wired,                  \* registrations made by init (lines 27-46)
    prManager,              \* prManager.repository, 0 = no manager
    reviewManager,          \* reviewManager.repository, 0 = no manager
    listened,               \* repositories whose ui.onDidChange init listens to
    updateRepositoryTimer,  \* init's local variable (last handle)
    timeouts,               \* handles setTimeout has scheduled and not yet run
    clearing,               \* handler runs awaiting clearCredentialCache
    startupEvents,          \* 'startup' events emitted by each init
    openLog,                \* onDidOpenRepository events since the listener
    burst,                  \* selection-changed events since the last timeout
    subscriptions,          \* what init pushed to context.subscriptions
    deactivateResult,       \* promise returned by deactivate
    shutdown,               \* telemetry.shutdown(): its promise
    shutdownCalls,          \* how often telemetry.shutdown was called
    last                    \* the handler that ran in the last step

vars == <<repositories, selected, telemetry, telemetryEvents, pc,
          activateResult, onceListener, initCalls, initRepository, wired,
          prManager, reviewManager, listened, updateRepositoryTimer,
          timeouts, clearing, startupEvents, openLog, burst, subscriptions,
          deactivateResult, shutdown, shutdownCalls, last>>

envVars == <<repositories, selected>>
activateVars == <<pc, activateResult, onceListener, initCalls, initRepository,
                  telemetry, openLog>>
initVars == <<activateVars, wired, startupEvents, telemetryEvents,
              subscriptions>>
deactivateVars == <<deactivateResult, shutdown, shutdownCalls>>
managerVars == <<prManager, reviewManager>>
timerVars == <<listened, updateRepositoryTimer, timeouts, burst>>

\* What init registers between the await and the managers (lines 27-46).
Wiring == {"configListener", "changeDetection", "uriHandler", "commands"}

\* What init pushes to context.subscriptions (lines 40 and 42): the results
\* of listenForVSCodeChanges and of registerUriHandler, nothing else.
Pushed == {"changeDetection", "uriHandler"}

\* Label of a step: the handler, the activations it ran for, the repository
\* it was about, the error messages it showed, whether a failure escaped it
\* uncaught, and (for a timeout) the selection-changed events it answers.
Step(op, insts, repo, shown, escaped, events) ==
    [op |-> op, insts |-> insts, repo |-> repo, shown |-> shown,
     escaped |-> escaped, events |-> events]

\* ------------------------------------------------------- pure helpers
\* git.repositories.filter(r => r.ui.selected)
SelectedRepositories == SelectSeq(repositories, LAMBDA r : selected[r])

\* (a slip: the last selected repository instead of the first)
LastSelectedRepository ==
    IF SelectedRepositories = << >> THEN NoRepository
    ELSE SelectedRepositories[Len(SelectedRepositories)]

\* ...[0]: the first selected repository, or undefined
FirstSelectedRepository ==
    IF SelectedRepositories = << >> THEN NoRepository
    ELSE Head(SelectedRepositories)

\* (a slip: the filter left out, every opened repository starts init)
AnyRepository(sel) == TRUE

\* filterEvent's predicate in activate: r => r.ui.selected, applied to the
\* flag the opened repository has when the event is delivered
RelevantRepository(sel) == sel

\* onceEvent: the subscription is disposed when its first event is delivered
OnceEvent(subscription) == "disposed"

\* (a slip: the pending timer is not cleared)
KeepTimeout(queue, handle) == queue

\* clearTimeout(updateRepositoryTimer) inside if (updateRepositoryTimer)
ClearTimeout(queue, handle) ==
    IF handle # NoTimer THEN queue \ {handle} ELSE queue

\* setTimeout returns a handle unlike every handle that is still scheduled
SetTimeout(queue) ==
    CHOOSE h \in 1..(Cardinality(queue) + 1) :
        /\ h \notin queue
        /\ \A k \in 1..(h - 1) : k \in queue

\* (a slip: the assignment made without the guard)
TimerPrManagerUnguarded(i) == FirstSelectedRepository

\* (a slip: the review manager's assignment left out)
TimerReviewManagerStale(i) == reviewManager[i]

\* The timer callback's two assignments, guarded by if (firstSelectedRepository)
TimerPrManager(i) ==
    IF FirstSelectedRepository # NoRepository THEN FirstSelectedRepository
    ELSE prManager[i]

TimerReviewManager(i) ==
    IF FirstSelectedRepository # NoRepository THEN FirstSelectedRepository
    ELSE reviewManager[i]

\* (a slip: the configuration listener registered before the await)
InitWiredEarly(outcome) ==
    IF outcome = "loaded" THEN Wiring ELSE {"configListener"}

\* (a slip: the startup event sent from a finally block)
InitStartupAlways(outcome) == 1

\* What init has registered when the configuration load settles: everything
\* is registered after the await, so a failed load leaves nothing
InitWired(outcome) == IF outcome = "loaded" THEN Wiring ELSE {}

\* context.subscriptions.push(...), twice, after the await
InitSubscriptions(outcome) == IF outcome = "loaded" THEN Pushed ELSE {}

\* telemetry.on('startup') is init's last statement
InitStartup(outcome) == IF outcome = "loaded" THEN 1 ELSE 0

\* The repository the configuration-change handler refreshes: the closure's
\* variable repository, which is init's parameter
HandlerRepository(i) == initRepository[i]

\* (a slip: the listener registered before the await, and no guard)
HandlerRunsUnguarded(i) == pc[i] \in {"loading", "done"}

\* The handler runs for a notification when init has registered it, and
\* does something when its guard if (prManager) holds
HandlerRuns(i) == "configListener" \in wired[i] /\ prManager[i] # NoRepository

\* (a slip: a notification is dropped while a run is still awaiting)
HandlerCoalesces(n) == IF n > 0 THEN n ELSE 1

\* Every notification starts a handler run of its own, which calls
\* clearCredentialCache and awaits it: the runs awaiting afterwards
HandlerStarts(n) == n + 1

\* (a slip: no catch block, the failure leaves the handler)
HandlerRethrow == [shown |-> 0, escaped |-> TRUE]

\* catch (e) { showErrorMessage(formatError(e)) }: one message, nothing escapes
HandlerCatch == [shown |-> 1, escaped |-> FALSE]

\* ------------------------------------------------------------- Init
\* Before activate: the provider already has some repositories, with any
\* selection; nothing of the extension exists.
Init ==
    /\ \E n \in 0..MaxRepos : repositories = [k \in 1..n |-> k]
    /\ selected \in [Repos -> BOOLEAN]
    /\ \A r \in Repos : r > Len(repositories) => ~selected[r]
    /\ telemetry = NoTelemetry
    /\ telemetryEvents = [s \in Insts |-> 0]
    /\ pc = [i \in Insts |-> "idle"]
    /\ activateResult = [i \in Insts |-> "none"]
    /\ onceListener = [i \in Insts |-> "none"]
    /\ initCalls = [i \in Insts |-> 0]
    /\ initRepository = [i \in Insts |-> NoRepository]
    /\ wired = [i \in Insts |-> {}]
    /\ prManager = [i \in Insts |-> NoRepository]
    /\ reviewManager = [i \in Insts |-> NoRepository]
    /\ listened = [i \in Insts |-> {}]
    /\ updateRepositoryTimer = [i \in Insts |-> NoTimer]
    /\ timeouts = [i \in Insts |-> {}]
    /\ clearing = [i \in Insts |-> 0]
    /\ startupEvents = [i \in Insts |-> 0]
    /\ openLog = [i \in Insts |-> << >>]
    /\ burst = [i \in Insts |-> 0]
    /\ subscriptions = [i \in Insts |-> {}]
    /\ deactivateResult = "none"
    /\ shutdown = "none"
    /\ shutdownCalls = 0
    /\ last = Step("none", {}, NoRepository, 0, FALSE, 0)

\* ---------------------------------------------------------- activate
\* activate(context): a new telemetry session; then either init with the
\* first selected repository (suspending at the configuration load), or the
\* single-shot listener on onDidOpenRepository.
Activate(i) ==
    /\ pc[i] = "idle"
    /\ telemetry' = i
    /\ IF FirstSelectedRepository # NoRepository
       THEN /\ initCalls' = [initCalls EXCEPT ![i] = @ + 1]
            /\ initRepository' =
                   [initRepository EXCEPT ![i] = FirstSelectedRepository]
            /\ pc' = [pc EXCEPT ![i] = "loading"]
            /\ activateResult' = [activateResult EXCEPT ![i] = "pending"]
            /\ UNCHANGED onceListener
       ELSE /\ onceListener' = [onceListener EXCEPT ![i] = "live"]
            /\ pc' = [pc EXCEPT ![i] = "waiting"]
            /\ activateResult' = [activateResult EXCEPT ![i] = "resolved"]
            /\ UNCHANGED <<initCalls, initRepository>>
    /\ last' = Step("activate", {i}, FirstSelectedRepository, 0, FALSE, 0)
    /\ UNCHANGED <<envVars, telemetryEvents, wired, managerVars, timerVars,
                   clearing, startupEvents, openLog, subscriptions,
                   deactivateVars>>

\* The provider opens a repository and fires onDidOpenRepository: every live
\* single-shot listener whose filter accepts it is disposed and calls init,
\* which runs up to the await of loadConfiguration.
OpenRepository(sel) ==
    /\ Len(repositories) < MaxRepos
    /\ LET r == Len(repositories) + 1
           fired == {i \in Insts :
                       onceListener[i] = "live" /\ RelevantRepository(sel)}
       IN /\ repositories' = Append(repositories, r)
          /\ selected' = [selected EXCEPT ![r] = sel]
          /\ onceListener' = [i \in Insts |->
                IF i \in fired THEN OnceEvent(onceListener[i])
                ELSE onceListener[i]]
          /\ initCalls' = [i \in Insts |->
                IF i \in fired THEN initCalls[i] + 1 ELSE initCalls[i]]
          /\ initRepository' = [i \in Insts |->
                IF i \in fired THEN r ELSE initRepository[i]]
          /\ pc' = [i \in Insts |-> IF i \in fired THEN "loading" ELSE pc[i]]
          /\ openLog' = [i \in Insts |->
                IF onceListener[i] # "none"
                THEN Append(openLog[i], [repo |-> r, sel |-> sel])
                ELSE openLog[i]]
          /\ last' = Step("onDidOpenRepository", fired, r, 0, FALSE, 0)
    /\ UNCHANGED <<telemetry, telemetryEvents, activateResult, wired,
                   managerVars, timerVars, clearing, startupEvents,
                   subscriptions, deactivateVars>>

\* ------------------------------------------------------------- init
\* loadConfiguration resolves: init continues without suspension to its end
\* (lines 27-71), and an activate awaiting it resolves.
LoadConfigurationOk(i) ==
    /\ pc[i] = "loading"
    /\ wired' = [wired EXCEPT ![i] = InitWired("loaded")]
    /\ subscriptions' =
           [subscriptions EXCEPT ![i] = InitSubscriptions("loaded")]
    /\ prManager' = [prManager EXCEPT ![i] = initRepository[i]]
    /\ reviewManager' = [reviewManager EXCEPT ![i] = initRepository[i]]
    /\ listened' = [listened EXCEPT ![i] =
                       {repositories[k] : k \in 1..Len(repositories)}]
    /\ startupEvents' = [startupEvents EXCEPT ![i] = @ + InitStartup("loaded")]
    /\ telemetryEvents' =
           [telemetryEvents EXCEPT ![telemetry] = @ + InitStartup("loaded")]
    /\ pc' = [pc EXCEPT ![i] = "done"]
    /\ activateResult' = [activateResult EXCEPT ![i] = "resolved"]
    /\ last' = Step("init", {i}, initRepository[i], 0, FALSE, 0)
    /\ UNCHANGED <<envVars, telemetry, onceListener, initCalls, openLog,
                   initRepository, updateRepositoryTimer, timeouts, burst,
                   clearing, deactivateVars>>

\* loadConfiguration rejects: init rejects at the await. An activate that
\* awaits init rejects too; the listener of the other path drops the promise
\* init returned, so there the rejection escapes.
LoadConfigurationFail(i) ==
    /\ pc[i] = "loading"
    /\ wired' = [wired EXCEPT ![i] = InitWired("failed")]
    /\ subscriptions' =
           [subscriptions EXCEPT ![i] = InitSubscriptions("failed")]
    /\ startupEvents' = [startupEvents EXCEPT ![i] = @ + InitStartup("failed")]
    /\ telemetryEvents' =
           [telemetryEvents EXCEPT ![telemetry] = @ + InitStartup("failed")]
    /\ pc' = [pc EXCEPT ![i] = "failed"]
    /\ activateResult' = [activateResult EXCEPT ![i] =
           IF @ = "pending" THEN "rejected" ELSE @]
    /\ last' = Step("initFailed", {i}, initRepository[i], 0,
                    activateResult[i] # "pending", 0)
    /\ UNCHANGED <<envVars, telemetry, onceListener, initCalls, openLog,
                   initRepository, managerVars, timerVars, clearing,
                   deactivateVars>>

\* --------------------------------------- configuration-change handler
\* The configuration changes, at any time: where init has registered its
\* handler, a run of it starts and goes if (prManager) up to the await of
\* clearCredentialCache; where it has not, nothing of the extension runs.
ConfigurationChanged ==
    LET runs == {i \in Insts : HandlerRuns(i)}
    IN  /\ \A i \in runs : clearing[i] < MaxConfigRuns
        /\ clearing' = [i \in Insts |->
              IF i \in runs THEN HandlerStarts(clearing[i]) ELSE clearing[i]]
        /\ last' = Step("onDidChange", runs, NoRepository, 0, FALSE, 0)
        /\ UNCHANGED <<envVars, initVars, managerVars, timerVars,
                       deactivateVars>>

\* clearCredentialCache resolves: repository.status() is called, not awaited.
\* It returns, throws (caught), or returns a promise that rejects later.
ClearCredentialCacheOk(i, status) ==
    /\ clearing[i] > 0
    /\ clearing' = [clearing EXCEPT ![i] = @ - 1]
    /\ last' = CASE status = "returns" ->
                      Step("status", {i}, HandlerRepository(i), 0, FALSE, 0)
                 [] status = "throws" ->
                      Step("status", {i}, HandlerRepository(i),
                           HandlerCatch.shown, HandlerCatch.escaped, 0)
                 [] status = "rejects" ->
                      Step("status", {i}, HandlerRepository(i), 0, TRUE, 0)
    /\ UNCHANGED <<envVars, initVars, managerVars, timerVars, deactivateVars>>

\* clearCredentialCache rejects: the catch block shows the error.
ClearCredentialCacheFail(i) ==
    /\ clearing[i] > 0
    /\ clearing' = [clearing EXCEPT ![i] = @ - 1]
    /\ last' = Step("clearFailed", {i}, NoRepository,
                    HandlerCatch.shown, HandlerCatch.escaped, 0)
    /\ UNCHANGED <<envVars, initVars, managerVars, timerVars, deactivateVars>>

\* ------------------------------------------------ selection debounce
\* A repository's selection changes and its ui.onDidChange fires: every init
\* that listens to it clears its timer and schedules a new one.
SelectionChanged(r, sel) ==
    /\ r \in {repositories[k] : k \in 1..Len(repositories)}
    /\ selected' = [selected EXCEPT ![r] = sel]
    /\ updateRepositoryTimer' = [i \in Insts |->
          IF r \in listened[i]
          THEN SetTimeout(ClearTimeout(timeouts[i], updateRepositoryTimer[i]))
          ELSE updateRepositoryTimer[i]]
    /\ timeouts' = [i \in Insts |->
          IF r \in listened[i]
          THEN ClearTimeout(timeouts[i], updateRepositoryTimer[i])
                 \cup {updateRepositoryTimer'[i]}
          ELSE timeouts[i]]
    /\ burst' = [i \in Insts |->
          IF r \in listened[i] /\ burst[i] < MaxBurst THEN burst[i] + 1
          ELSE burst[i]]
    /\ last' = Step("ui.onDidChange", {i \in Insts : r \in listened[i]}, r,
                    0, FALSE, 0)
    /\ UNCHANGED <<repositories, initVars, managerVars, listened, clearing,
                   deactivateVars>>

\* A scheduled timeout fires: the callback reads the selection as it is now
\* and makes both assignments without suspension.
TimerFire(i, h) ==
    /\ h \in timeouts[i]
    /\ timeouts' = [timeouts EXCEPT ![i] = @ \ {h}]
    /\ prManager' = [prManager EXCEPT ![i] = TimerPrManager(i)]
    /\ reviewManager' = [reviewManager EXCEPT ![i] = TimerReviewManager(i)]
    /\ burst' = [burst EXCEPT ![i] = 0]
    /\ last' = Step("timeout", {i}, FirstSelectedRepository, 0, FALSE,
                    burst[i])
    /\ UNCHANGED <<envVars, initVars, listened, updateRepositoryTimer,
                   clearing, deactivateVars>>

\* The host runs one of the timeouts that are due.
Timeout(i) == \E h \in timeouts[i] : TimerFire(i, h)

Next ==
    \/ Activate("first")
    \/ \E sel \in BOOLEAN : OpenRepository(sel)
    \/ \E i \in Insts : LoadConfigurationOk(i)
    \/ \E i \in Insts : LoadConfigurationFail(i)
    \/ ConfigurationChanged
    \/ \E i \in Insts, status \in {"returns", "throws", "rejects"} :
           ClearCredentialCacheOk(i, status)
    \/ \E i \in Insts : ClearCredentialCacheFail(i)
    \/ \E r \in Repos, sel \in BOOLEAN : SelectionChanged(r, sel)
    \/ \E i \in Insts : Timeout(i)

Spec == Init /\ [][Next]_vars

\* ------------------------------------------------------- deactivate
\* (a slip: telemetry.shutdown() called but not awaited)
DeactivateReturnsEarly(tel) == "resolved"

\* deactivate's promise when its synchronous part ends: it awaits the
\* shutdown if (telemetry), and has nothing to wait for otherwise
DeactivateReturns(tel) == IF tel # NoTelemetry THEN "pending" ELSE "resolved"

\* (a slip: deactivate clears the debounce timers)
DeactivateTimeoutsCleared == [i \in Insts |-> {}]

\* The scheduled timeouts after deactivate: it has no clearTimeout
DeactivateTimeouts == timeouts

\* deactivate(): if (telemetry), call telemetry.shutdown() and await it.
Deactivate ==
    /\ deactivateResult = "none"
    /\ deactivateResult' = DeactivateReturns(telemetry)
    /\ IF telemetry # NoTelemetry
       THEN /\ shutdownCalls' = shutdownCalls + 1
            /\ shutdown' = "pending"
       ELSE UNCHANGED <<shutdownCalls, shutdown>>
    /\ timeouts' = DeactivateTimeouts
    /\ last' = Step("deactivate", {}, NoRepository, 0, FALSE, 0)
    /\ UNCHANGED <<envVars, initVars, managerVars, listened,
                   updateRepositoryTimer, burst, clearing>>

\* telemetry.shutdown() resolves: a deactivate awaiting it resolves.
ShutdownOk ==
    /\ shutdown = "pending"
    /\ shutdown' = "done"
    /\ deactivateResult' =
           IF deactivateResult = "pending" THEN "resolved" ELSE deactivateResult
    /\ last' = Step("shutdown", {}, NoRepository, 0, FALSE, 0)
    /\ UNCHANGED <<envVars, initVars, managerVars, timerVars, clearing,
                   shutdownCalls>>

\* telemetry.shutdown() rejects: a deactivate awaiting it rejects.
ShutdownFail ==
    /\ shutdown = "pending"
    /\ shutdown' = "failed"
    /\ deactivateResult' =
           IF deactivateResult = "pending" THEN "rejected" ELSE deactivateResult
    /\ last' = Step("shutdownFailed", {}, NoRepository, 0, FALSE, 0)
    /\ UNCHANGED <<envVars, initVars, managerVars, timerVars, clearing,
                   shutdownCalls>>

\* The extension with its teardown: the host calls deactivate once, and ends
\* the extension's process when the promise deactivate returned has settled,
\* so that no handler of the extension runs after that.
Running == deactivateResult \in {"none", "pending"}

NextDeactivate ==
    \/ Running /\ Next
    \/ Deactivate
    \/ ShutdownOk
    \/ ShutdownFail

SpecDeactivate == Init /\ [][NextDeactivate]_vars

\* ------------------------------------------------- activate, again
\* activate is called a second time in the same process, with a repository
\* selected: the same code runs again, with closures of its own.
Reactivate ==
    /\ pc["first"] # "idle"
    /\ FirstSelectedRepository # NoRepository
    /\ Activate("second")

\* The configuration-change handler is left out of this specification: it
\* changes nothing that activate or init reads.
NextReactivate ==
    \/ Activate("first")
    \/ Reactivate
    \/ \E sel \in BOOLEAN : OpenRepository(sel)
    \/ \E i \in Insts : LoadConfigurationOk(i)
    \/ \E i \in Insts : LoadConfigurationFail(i)
    \/ \E r \in Repos, sel \in BOOLEAN : SelectionChanged(r, sel)
    \/ \E i \in Insts : Timeout(i)

SpecReactivate == Init /\ [][NextReactivate]_vars

\* =====================================================================
\* Properties
\* =====================================================================
RepositorySet == {repositories[k] : k \in 1..Len(repositories)}

\* x is selected and no repository enumerated before it is
IsFirstSelected(x) ==
    \E k \in 1..Len(repositories) :
        /\ repositories[k] = x
        /\ selected[x]
        /\ \A j \in 1..(k - 1) : ~selected[repositories[j]]

SomeSelected == \E x \in RepositorySet : selected[x]

\* the step just taken ran i's selection-changed listener / i's timer callback
Handled(i) == last'.op = "ui.onDidChange" /\ i \in last'.insts
Fired(i) == last'.op = "timeout" /\ i \in last'.insts

\* C1. Single resolution: an activation that found no repository selected
\* has started init exactly for the first opened event whose repository was
\* selected when the event was delivered, and for no other: before such an
\* event it is still listening and init has not run; after it the listener
\* is disposed and init has run once, bound to that event's repository.
C1_SingleResolution ==
    \A i \in Insts :
        onceListener[i] # "none" =>
            LET matches == {k \in 1..Len(openLog[i]) : openLog[i][k].sel}
            IN  IF matches = {}
                THEN /\ initCalls[i] = 0
                     /\ onceListener[i] = "live"
                     /\ pc[i] = "waiting"
                ELSE LET m == CHOOSE k \in matches : \A j \in matches : k <= j
                     IN  /\ initCalls[i] = 1
                         /\ initRepository[i] = openLog[i][m].repo
                         /\ onceListener[i] = "disposed"

\* The stream [R1 unselected, R2 selected, R3 selected] has been delivered
\* and init ran once, for R2.
C1_Witness ==
    /\ Len(openLog["first"]) = 3
    /\ ~openLog["first"][1].sel
    /\ openLog["first"][2].sel
    /\ openLog["first"][3].sel
    /\ initCalls["first"] = 1
    /\ initRepository["first"] = openLog["first"][2].repo

\* C2. Per call of activate init runs at most once and with one repository:
\* with a repository selected, activate starts init at once with the first
\* selected one and registers no listener, and no later opened event starts
\* an init; otherwise only the live single-shot listener starts init. Init's
\* repository never changes, and both managers are constructed with it.
C2_Activation ==
    \A i \in Insts :
        /\ (pc[i] = "idle" /\ pc'[i] # "idle") =>
              IF SomeSelected
              THEN /\ initCalls'[i] = 1
                   /\ IsFirstSelected(initRepository'[i])
                   /\ onceListener'[i] = "none"
                   /\ pc'[i] = "loading"
              ELSE /\ initCalls'[i] = 0
                   /\ onceListener'[i] = "live"
        /\ (pc[i] # "idle" /\ onceListener[i] = "none") =>
              /\ onceListener'[i] = "none"
              /\ initCalls'[i] = initCalls[i]
        /\ (pc[i] # "idle" /\ initCalls'[i] # initCalls[i]) =>
              /\ onceListener[i] = "live"
              /\ onceListener'[i] = "disposed"
              /\ Len(repositories') = Len(repositories) + 1
        /\ initCalls'[i] <= 1
        /\ (initRepository[i] # NoRepository) =>
              initRepository'[i] = initRepository[i]
        /\ (prManager[i] = NoRepository /\ prManager'[i] # NoRepository) =>
              /\ prManager'[i] = initRepository[i]
              /\ reviewManager'[i] = initRepository[i]
              /\ initRepository[i] # NoRepository

C2_OneInit == [][C2_Activation]_vars

\* activate has just run with R2 and R3 selected and R1 not: init was
\* started with R2 and no listener exists.
C2_Witness ==
    /\ last.op = "activate"
    /\ Len(repositories) = 3
    /\ ~selected[1] /\ selected[2] /\ selected[3]
    /\ initRepository["first"] = 2
    /\ initCalls["first"] = 1
    /\ onceListener["first"] = "none"

\* C3. Debounce: a selection-changed event leaves exactly one timer
\* scheduled, the new one, and changes no manager; a timeout answers at
\* least one event, leaves no timer behind (so a burst gets one resolution,
\* after its last event), and assigns the repository that is first selected
\* when it fires; the managers' repository changes in no other step.
C3_Step ==
    \A i \in Insts :
        /\ Handled(i) =>
              /\ timeouts'[i] = {updateRepositoryTimer'[i]}
              /\ updateRepositoryTimer'[i] # NoTimer
              /\ prManager'[i] = prManager[i]
              /\ reviewManager'[i] = reviewManager[i]
        /\ Fired(i) =>
              /\ burst[i] >= 1
              /\ last'.events = burst[i]
              /\ timeouts'[i] = {}
              /\ IF SomeSelected
                 THEN /\ IsFirstSelected(prManager'[i])
                      /\ IsFirstSelected(reviewManager'[i])
                 ELSE /\ prManager'[i] = prManager[i]
                      /\ reviewManager'[i] = reviewManager[i]
        /\ (/\ prManager[i] # NoRepository
            /\ \/ prManager'[i] # prManager[i]
               \/ reviewManager'[i] # reviewManager[i]) => Fired(i)

C3_Debounce == [][C3_Step]_vars

\* A timeout has just answered a burst of three events and moved both
\* managers from R1, which lost the selection, to R2.
C3_Witness ==
    /\ last.op = "timeout"
    /\ last.events = 3
    /\ initRepository["first"] = 1
    /\ ~selected[1] /\ selected[2]
    /\ prManager["first"] = 2
    /\ reviewManager["first"] = 2

\* C4. Between handlers the two managers hold the same repository, and they
\* hold one exactly when init has constructed them.
C4_ManagersInSync ==
    \A i \in Insts :
        /\ prManager[i] = reviewManager[i]
        /\ (pc[i] = "done") <=> (prManager[i] # NoRepository)
        /\ (pc[i] = "done") <=> (reviewManager[i] # NoRepository)

\* A timeout has just moved the managers away from init's repository.
C4_Witness ==
    /\ last.op = "timeout"
    /\ prManager["first"] # initRepository["first"]
    /\ prManager["first"] # NoRepository
    /\ reviewManager["first"] = prManager["first"]

\* C5. A timeout that finds no repository selected writes neither manager;
\* no step sets a constructed manager's repository to 'no repository'; and
\* a selection-changed event still schedules a timer afterwards.
C5_Step ==
    \A i \in Insts :
        /\ (Fired(i) /\ ~SomeSelected) =>
              /\ prManager'[i] = prManager[i]
              /\ reviewManager'[i] = reviewManager[i]
        /\ (prManager[i] # NoRepository) => prManager'[i] # NoRepository
        /\ (reviewManager[i] # NoRepository) =>
              reviewManager'[i] # NoRepository
        /\ Handled(i) => timeouts'[i] # {}

C5_NoOpWhenNothingSelected == [][C5_Step]_vars

\* A timeout has just fired with nothing selected, and the managers still
\* hold init's repository.
C5_Witness ==
    /\ last.op = "timeout"
    /\ last.repo = NoRepository
    /\ ~SomeSelected
    /\ prManager["first"] = initRepository["first"]
    /\ reviewManager["first"] = initRepository["first"]
    /\ initRepository["first"] # NoRepository

\* C6. A handler run whose clearCredentialCache fails shows one error
\* message and lets nothing escape; it changes neither manager nor the
\* timer, and nothing else but the count of runs still awaiting, which it
\* leaves as a successful run does: later events find the same state.
C6_Step ==
    last'.op = "clearFailed" =>
        /\ last'.shown = 1
        /\ ~last'.escaped
        /\ UNCHANGED <<prManager, reviewManager>>
        /\ UNCHANGED <<updateRepositoryTimer, timeouts, listened, burst>>
        /\ UNCHANGED <<envVars, initVars>>
        /\ \A i \in Insts :
              clearing'[i] = IF i \in last'.insts THEN clearing[i] - 1
                             ELSE clearing[i]

C6_ConfigFailureIsolation == [][C6_Step]_vars

\* A run has just failed while a debounce timer was pending and the
\* managers had already been moved by an earlier timeout.
C6_Witness ==
    /\ last.op = "clearFailed"
    /\ last.shown = 1
    /\ timeouts["first"] # {}
    /\ prManager["first"] # NoRepository
    /\ prManager["first"] # initRepository["first"]
    /\ "configListener" \in wired["first"]

\* C7. Each init emits 'startup' at most once: once exactly when it has run
\* to completion, then with both managers constructed and the listeners
\* registered, and not at all when the configuration load failed. The
\* activation's telemetry session receives exactly these events.
C7_StartupTelemetry ==
    \A i \in Insts :
        /\ startupEvents[i] <= 1
        /\ (startupEvents[i] = 1) <=> (pc[i] = "done")
        /\ (startupEvents[i] >= 1) =>
              /\ prManager[i] # NoRepository
              /\ reviewManager[i] # NoRepository
              /\ "configListener" \in wired[i]
              /\ initRepository[i] \in listened[i]
        /\ (pc[i] = "failed") => startupEvents[i] = 0
        /\ telemetryEvents[i] = startupEvents[i]

\* init ran to completion after the single-shot listener started it.
C7_Witness ==
    /\ pc["first"] = "done"
    /\ onceListener["first"] = "disposed"
    /\ startupEvents["first"] = 1
    /\ telemetryEvents["first"] = 1

\* C8. (as claimed) Whenever the handler asks for a status refresh, it asks
\* the repository both managers hold at that moment.
C8_Step ==
    last'.op = "status" =>
        \A i \in last'.insts :
            /\ last'.repo = prManager[i]
            /\ last'.repo = reviewManager[i]

C8_RefreshesActiveRepository == [][C8_Step]_vars

\* C9. After a failed configuration load init has left nothing: no
\* registration, no manager, no selection listener, no timer, no handler
\* run and no startup event, whatever happens later.
C9_NothingWired ==
    \A i \in Insts :
        (pc[i] = "failed") =>
            /\ wired[i] = {}
            /\ prManager[i] = NoRepository
            /\ reviewManager[i] = NoRepository
            /\ listened[i] = {}
            /\ updateRepositoryTimer[i] = NoTimer
            /\ timeouts[i] = {}
            /\ clearing[i] = 0
            /\ startupEvents[i] = 0
            /\ telemetryEvents[i] = 0

\* The load failed and afterwards the selection of init's repository
\* changed: still nothing is wired.
C9_Witness ==
    /\ pc["first"] = "failed"
    /\ last.op = "ui.onDidChange"
    /\ last.repo = initRepository["first"]
    /\ last.insts = {}

\* C10. (as claimed) When init's configuration load has failed, the promise
\* activate returned is rejected, in both discovery paths.
C10_FailurePropagates ==
    \A i \in Insts : (pc[i] = "failed") => activateResult[i] = "rejected"

\* C11. (as claimed) Every live subscription of an activation is in
\* context.subscriptions: the configuration listener, the change-detection
\* registration, the URI handler, the selection-changed listeners and the
\* single-shot repository-opened listener.
C11_AllSubscriptionsRegistered ==
    \A i \in Insts :
        /\ (wired[i] \ {"commands"}) \subseteq subscriptions[i]
        /\ (listened[i] # {}) => "selectionListeners" \in subscriptions[i]
        /\ (onceListener[i] = "live") => "openListener" \in subscriptions[i]

\* C12. deactivate calls telemetry.shutdown exactly when a telemetry session
\* exists, and then once; its promise is not settled before the shutdown
\* has settled; without a session it resolves at once, calling nothing.
C12_Step ==
    /\ (deactivateResult = "none" /\ deactivateResult' # "none") =>
          IF telemetry # NoTelemetry
          THEN /\ shutdownCalls' = 1
               /\ shutdown' = "pending"
               /\ deactivateResult' = "pending"
          ELSE /\ shutdownCalls' = 0
               /\ shutdown' = "none"
               /\ deactivateResult' = "resolved"
               /\ ~last'.escaped
    /\ shutdownCalls' <= 1
    /\ (shutdown' = "pending") => deactivateResult' = "pending"
    /\ (shutdown' = "done") => deactivateResult' = "resolved"
    /\ (deactivateResult # "none") => shutdownCalls' = shutdownCalls

C12_Deactivate == [][C12_Step]_vars

\* deactivate was called after activate and has resolved, after the one
\* shutdown it called had resolved.
C12_Witness ==
    /\ deactivateResult = "resolved"
    /\ shutdown = "done"
    /\ shutdownCalls = 1
    /\ telemetry = "first"
    /\ last.op = "shutdown"

\* C13. (as claimed) A second call of activate leaves the system as the
\* first call left it: the first telemetry session, no second init, no
\* second pair of managers, no second set of selection listeners or timer,
\* no second startup event.
C13_ActivateIdempotent ==
    /\ telemetry \in {NoTelemetry, "first"}
    /\ initCalls["second"] = 0
    /\ prManager["second"] = NoRepository
    /\ reviewManager["second"] = NoRepository
    /\ listened["second"] = {}
    /\ updateRepositoryTimer["second"] = NoTimer
    /\ startupEvents["second"] = 0
    /\ telemetryEvents["second"] = 0

\* C14. (as claimed) Once init has completed, a selection-changed event of
\* any repository of the collection runs init's listener, which leaves
\* exactly one timer scheduled.
C14_Step ==
    \A i \in Insts :
        (pc[i] = "done" /\ last'.op = "ui.onDidChange") =>
            /\ Handled(i)
            /\ Cardinality(timeouts'[i]) = 1

C14_EveryRepositoryListened == [][C14_Step]_vars

\* C15. At most one timeout is scheduled per init, and it is the one whose
\* handle updateRepositoryTimer holds; a selection-changed event that init
\* handles ends with exactly one scheduled; the timeout that runs is always
\* that latest one, never one an event has cleared; and the scheduled
\* timeouts change in no other step.
C15_Step ==
    \A i \in Insts :
        /\ Cardinality(timeouts'[i]) <= 1
        /\ timeouts'[i] \subseteq {updateRepositoryTimer'[i]} \ {NoTimer}
        /\ Handled(i) => Cardinality(timeouts'[i]) = 1
        /\ Fired(i) =>
              /\ timeouts[i] = {updateRepositoryTimer[i]}
              /\ timeouts'[i] = {}
              /\ updateRepositoryTimer'[i] = updateRepositoryTimer[i]
        /\ (timeouts'[i] # timeouts[i]) => (Handled(i) \/ Fired(i))

C15_TimerStateMachine == [][C15_Step]_vars

\* An event has just cancelled the timer of an earlier event and scheduled
\* its own.
C15_Witness ==
    /\ last.op = "ui.onDidChange"
    /\ "first" \in last.insts
    /\ burst["first"] >= 2
    /\ timeouts["first"] = {updateRepositoryTimer["first"]}

\* C16. (as claimed) After init, with no timer pending and a repository
\* selected, both managers hold the first selected repository.
C16_PointerConsistent ==
    \A i \in Insts :
        (pc[i] = "done" /\ timeouts[i] = {} /\ SomeSelected) =>
            /\ IsFirstSelected(prManager[i])
            /\ IsFirstSelected(reviewManager[i])

\* C17. (as claimed) No failure of clearCredentialCache or of the status
\* refresh leaves the configuration-change handler uncaught.
C17_Step ==
    (last'.op \in {"status", "clearFailed"}) => ~last'.escaped

C17_EveryFailureCaught == [][C17_Step]_vars

\* C18. A configuration change that arrives before init has constructed the
\* managers runs no handler: no clearCredentialCache is called then (so no
\* refresh and no error message can follow from it), nothing is shown and
\* nothing is thrown; whatever the handler does, it does for a completed
\* init.
C18_Step ==
    /\ (last'.op = "onDidChange") =>
          /\ last'.shown = 0
          /\ ~last'.escaped
          /\ last'.repo = NoRepository
          /\ \A i \in Insts :
                (pc[i] # "done") =>
                    /\ i \notin last'.insts
                    /\ clearing'[i] = 0
          /\ UNCHANGED <<envVars, initVars, managerVars, timerVars>>
    /\ (last'.op \in {"status", "clearFailed"}) =>
          \A i \in last'.insts : pc[i] = "done"
    /\ \A i \in Insts : (pc'[i] # "done") => clearing'[i] = 0

C18_GuardBeforeManagers == [][C18_Step]_vars

\* The configuration changed while init was suspended at the load.
C18_Witness ==
    /\ last.op = "onDidChange"
    /\ last.insts = {}
    /\ pc["first"] = "loading"
    /\ clearing["first"] = 0

\* C19. Every notification after init starts one more run awaiting
\* clearCredentialCache, also while earlier runs await; a run whose clear
\* fails asks for no refresh; a refresh is asked for only by a run that was
\* awaiting its clear, which then has succeeded.
C19_Step ==
    /\ (last'.op = "onDidChange") =>
          \A i \in Insts :
              (pc[i] = "done") =>
                  /\ i \in last'.insts
                  /\ clearing'[i] = clearing[i] + 1
    /\ (last'.op = "clearFailed") =>
          /\ last'.repo = NoRepository
          /\ \A i \in last'.insts : clearing'[i] = clearing[i] - 1
    /\ (last'.op = "status") =>
          /\ last'.repo # NoRepository
          /\ \A i \in last'.insts :
                /\ clearing[i] > 0
                /\ clearing'[i] = clearing[i] - 1
    /\ (clearing' # clearing) =>
          last'.op \in {"onDidChange", "clearFailed", "status"}

C19_HandlerRuns == [][C19_Step]_vars

\* A second notification has just started its run while the first run is
\* still awaiting.
C19_Witness ==
    /\ last.op = "onDidChange"
    /\ "first" \in last.insts
    /\ clearing["first"] = 2

\* C20. deactivate changes nothing but the telemetry shutdown and its own
\* promise: managers, listeners, registrations, the single-shot listener, a
\* suspended init and the scheduled timeouts stay as they are.
C20_Step ==
    (last'.op = "deactivate") =>
        /\ UNCHANGED <<prManager, reviewManager>>
        /\ UNCHANGED <<listened, updateRepositoryTimer, timeouts, burst>>
        /\ UNCHANGED <<pc, activateResult, onceListener, initCalls,
                       initRepository, telemetry, wired, subscriptions>>
        /\ UNCHANGED <<envVars, clearing, startupEvents, telemetryEvents>>

C20_DeactivateFrame == [][C20_Step]_vars

\* deactivate has just run with a debounce timer scheduled, which is still
\* scheduled.
C20_Witness ==
    /\ last.op = "deactivate"
    /\ timeouts["first"] # {}
    /\ prManager["first"] # NoRepository
    /\ shutdown = "pending"

====
